---- MODULE Spec2Model ----
(***************************************************************************)
(* cpixel: the Converter of src/src/converter.rs.  A Converter holds the   *)
(* display area in character cells (output_constraints), the size of the  *)
(* images it expects (input_image_dimensions), the pixel footprint of one  *)
(* cell (cpixel_dimensions), the derived pixel size images are resized to  *)
(* (output_dimensions), a contrast flag and the cell-converter.            *)
(*                                                                         *)
(* Dimensions::fit_with_locked_ratio, BitmapImage::resize and              *)
(* CpixelConverter::convert_one live in other files of the crate; they are *)
(* modelled from their contracts in spec.md (sections 4.1, 4.3 and 6).     *)
(***************************************************************************)
EXTENDS Integers, Sequences, FiniteSets

VARIABLES conv, call, ret, sample

vars == <<conv, call, ret, sample>>

(***************************************************************************)
(* Bounds of the model.                                                    *)
(***************************************************************************)
\* heights and widths tried when a Converter is reconfigured (Spec)
MaxSetting == 1
\* heights and widths tried when a Converter is only constructed (SpecFit)
MaxDim == 3

(***************************************************************************)
(* Dimensions                                                              *)
(***************************************************************************)
Dims(h, w) == [height |-> h, width |-> w]

DimensionsUpTo(n) == [height : 0..n, width : 0..n]

Area(d) == d.height * d.width

\* Dimensions::fit_with_locked_ratio(source, bounds): the smaller of the two
\* scale factors bounds.height/source.height and bounds.width/source.width
\* is applied to both axes of source and the result is floored; a zero
\* dimension of source or bounds gives {0,0}.
fit_with_locked_ratio(source, bounds) ==
  IF source.height = 0 \/ source.width = 0
     \/ bounds.height = 0 \/ bounds.width = 0
  THEN Dims(0, 0)
  ELSE IF bounds.height * source.width <= bounds.width * source.height
       THEN Dims((source.height * bounds.height) \div source.height,
                 (source.width * bounds.height) \div source.height)
       ELSE Dims((source.height * bounds.width) \div source.width,
                 (source.width * bounds.width) \div source.width)

(***************************************************************************)
(* Brightness for u8                                                       *)
(***************************************************************************)
min == 0

max == 255

\* `as u8`: narrowing keeps the low 8 bits
as_u8(x) == x % (max + 1)

\* (self as u16 + rhs as u16 / 2) as u8: the cast binds tighter than `/`,
\* and `/` tighter than `+`
average(self, rhs) == as_u8(self + (rhs \div 2))

(***************************************************************************)
(* BitmapImage<T>: dimensions and a row-major buffer                       *)
(***************************************************************************)
BitmapImage(dimensions, buffer) == [dimensions |-> dimensions, buffer |-> buffer]

\* the images handed to convert_one: all-dark, all-bright and alternating
Patterns == {"dark", "bright", "stripes"}

PatternPixel(p, i) ==
  CASE p = "dark" -> min
    [] p = "bright" -> max
    [] OTHER -> IF i % 2 = 1 THEN max ELSE min

PatternImage(d, p) ==
  BitmapImage(d, [i \in 1..Area(d) |-> PatternPixel(p, i)])

OneRowMore(d) == Dims(d.height + 1, d.width)

\* BitmapImage::resize(image, target): the result has dimensions == target,
\* row-major, each pixel resampled from the source (nearest neighbour); a
\* target with a zero dimension gives an empty bitmap.
resize(image, target) ==
  BitmapImage(target,
    [i \in 1..Area(target) |->
       LET r  == (i - 1) \div target.width
           c  == (i - 1) % target.width
           sr == (r * image.dimensions.height) \div target.height
           sc == (c * image.dimensions.width) \div target.width
       IN  image.buffer[(sr * image.dimensions.width) + sc + 1]])

(***************************************************************************)
(* CpixelConverter<T>                                                      *)
(***************************************************************************)
\* the glyph ramp, darkest first; the two ends are the glyphs the tests of
\* converter.rs expect for the pixels 0 and 255
Ramp == <<" ", ".", "+", "N">>

Cpixel(brightness) ==
  Ramp[1 + ((brightness - min) * (Len(Ramp) - 1)) \div (max - min)]

\* whole cells of `cell` pixels along an axis of n pixels
Cells(n, cell) == IF cell = 0 THEN 0 ELSE n \div cell

\* the pixels of the cell at (row, col), row-major
Block(image, cell_pixels, row, col) ==
  [k \in 1..Area(cell_pixels) |->
     LET r == (row * cell_pixels.height) + ((k - 1) \div cell_pixels.width)
         c == (col * cell_pixels.width) + ((k - 1) % cell_pixels.width)
     IN  image.buffer[(r * image.dimensions.width) + c + 1]]

\* a block reduced to one brightness with Brightness::average, pixel by
\* pixel: the first n pixels of the block
RECURSIVE Reduce(_, _)
Reduce(block, n) ==
  IF n = 1 THEN block[1]
  ELSE average(Reduce(block, n - 1), block[n])

\* CpixelConverter::convert_one(image, cell_pixels): one Cpixel per whole
\* block of cell_pixels pixels; the result's dimensions are the image's
\* divided by cell_pixels.
cpixel_convert_one(image, cell_pixels) ==
  LET d == Dims(Cells(image.dimensions.height, cell_pixels.height),
                Cells(image.dimensions.width, cell_pixels.width))
  IN  BitmapImage(d,
        [i \in 1..Area(d) |->
           LET block == Block(image, cell_pixels,
                              (i - 1) \div d.width, (i - 1) % d.width)
           IN  Cpixel(Reduce(block, Len(block)))])

\* the cell-converter's own state, opaque to the Converter: as
\* Default::default() builds it, or as its convert_one(&mut self) leaves it
DefaultConverter == "default"

UsedConverter == "used"

(***************************************************************************)
(* Converter<T>                                                            *)
(***************************************************************************)
\* generate_output_dimensions with the arguments of fit_with_locked_ratio in
\* the wrong order (the screen fitted into the image)
generate_output_dimensions_swapped(image_dimensions, output_constraints, cpixel_dimensions) ==
  fit_with_locked_ratio(
    Dims(output_constraints.height * cpixel_dimensions.height,
         output_constraints.width * cpixel_dimensions.width),
    image_dimensions)

\* generate_output_dimensions fitting into the cell counts, the conversion
\* from cells to pixels forgotten
generate_output_dimensions_in_cells(image_dimensions, output_constraints, cpixel_dimensions) ==
  fit_with_locked_ratio(image_dimensions, output_constraints)

\* Converter::generate_output_dimensions
generate_output_dimensions(image_dimensions, output_constraints, cpixel_dimensions) ==
  LET screen_in_pixels ==
        Dims(output_constraints.height * cpixel_dimensions.height,
             output_constraints.width * cpixel_dimensions.width)
  IN  fit_with_locked_ratio(image_dimensions, screen_in_pixels)

\* new leaving output_dimensions at its default instead of deriving it
new_underived(output_constraints, input_image_dimensions, cpixel_dimensions, maximize_contrast) ==
  [converter              |-> DefaultConverter,
   cpixel_dimensions      |-> cpixel_dimensions,
   output_constraints     |-> output_constraints,
   input_image_dimensions |-> input_image_dimensions,
   output_dimensions      |-> Dims(0, 0),
   maximize_contrast      |-> maximize_contrast]

\* Converter::new
new(output_constraints, input_image_dimensions, cpixel_dimensions, maximize_contrast) ==
  [converter              |-> DefaultConverter,
   cpixel_dimensions      |-> cpixel_dimensions,
   output_constraints     |-> output_constraints,
   input_image_dimensions |-> input_image_dimensions,
   output_dimensions      |-> generate_output_dimensions(input_image_dimensions,
                                                         output_constraints,
                                                         cpixel_dimensions),
   maximize_contrast      |-> maximize_contrast]

\* with_settings patching the three settings and keeping the old derived size
with_settings_stale(self, output_constraints, input_image_dimensions, cpixel_dimensions) ==
  [self EXCEPT !.output_constraints = output_constraints,
               !.input_image_dimensions = input_image_dimensions,
               !.cpixel_dimensions = cpixel_dimensions]

\* with_settings building the cell-converter afresh, as new does
with_settings_fresh_converter(self, output_constraints, input_image_dimensions, cpixel_dimensions) ==
  new(output_constraints, input_image_dimensions, cpixel_dimensions,
      self.maximize_contrast)

\* Converter::with_settings: self is consumed
with_settings(self, output_constraints, input_image_dimensions, cpixel_dimensions) ==
  [converter              |-> self.converter,
   output_constraints     |-> output_constraints,
   input_image_dimensions |-> input_image_dimensions,
   cpixel_dimensions      |-> cpixel_dimensions,
   output_dimensions      |-> generate_output_dimensions(input_image_dimensions,
                                                         output_constraints,
                                                         cpixel_dimensions),
   maximize_contrast      |-> self.maximize_contrast]

\* convert_one adopting the size of the image it was handed as the size to
\* resize to from then on
convert_one_adopting(self, image, converter_after) ==
  [self |-> [self EXCEPT !.converter = converter_after,
                         !.output_dimensions = image.dimensions],
   ret  |-> [kind  |-> "grid",
             image |-> cpixel_convert_one(resize(image, self.output_dimensions),
                                          self.cpixel_dimensions)]]

\* Converter::convert_one(&mut self, image): the image is resized to
\* output_dimensions and handed to the cell-converter with cpixel_dimensions.
\* Only self.converter is borrowed mutably; `converter_after` is the state the
\* cell-converter leaves it in.  The value returned is a BitmapImage<Cpixel>,
\* never a Result.
convert_one(self, image, converter_after) ==
  [self |-> [self EXCEPT !.converter = converter_after],
   ret  |-> [kind  |-> "grid",
             image |-> cpixel_convert_one(resize(image, self.output_dimensions),
                                          self.cpixel_dimensions)]]

(***************************************************************************)
(* The state machine.  conv is the live Converter, call the last operation *)
(* with its arguments, ret what it returned; sample is a pair of 8-bit     *)
(* intensities and their Brightness::average.                              *)
(***************************************************************************)
NoImage == BitmapImage(Dims(0, 0), <<>>)

NoRet == [kind |-> "none", image |-> NoImage]

NoSample == [self |-> 0, rhs |-> 0, average |-> 0, applied |-> FALSE]

Call(op, oc, iid, cd, image) ==
  [op |-> op, output_constraints |-> oc, input_image_dimensions |-> iid,
   cpixel_dimensions |-> cd, image |-> image]

InitNew(n) ==
  \E oc \in DimensionsUpTo(n), iid \in DimensionsUpTo(n),
     cd \in DimensionsUpTo(n), mc \in BOOLEAN :
       /\ conv = new(oc, iid, cd, mc)
       /\ call = Call("new", oc, iid, cd, NoImage)
       /\ ret = NoRet
       /\ sample = NoSample

WithSettings ==
  \E oc \in DimensionsUpTo(MaxSetting), iid \in DimensionsUpTo(MaxSetting),
     cd \in DimensionsUpTo(MaxSetting) :
       /\ conv' = with_settings(conv, oc, iid, cd)
       /\ call' = Call("with_settings", oc, iid, cd, NoImage)
       /\ ret' = NoRet
       /\ UNCHANGED sample

\* the caller hands convert_one an image of the configured size, or one
\* with a row too many
ConvertOne ==
  \E d \in {conv.input_image_dimensions, OneRowMore(conv.input_image_dimensions)},
     p \in Patterns :
       LET image == PatternImage(d, p)
           r == convert_one(conv, image, UsedConverter)
       IN  /\ conv' = r.self
           /\ ret' = r.ret
           /\ call' = Call("convert_one", conv.output_constraints,
                           conv.input_image_dimensions, conv.cpixel_dimensions,
                           image)
           /\ UNCHANGED sample

Init == InitNew(MaxSetting)

Next == WithSettings \/ ConvertOne

Spec == Init /\ [][Next]_vars

InitFit == InitNew(MaxDim)

NextFit == ConvertOne

SpecFit == InitFit /\ [][NextFit]_vars

\* Brightness::average on every pair of 8-bit intensities
InitBrightness ==
  /\ conv = new(Dims(1, 1), Dims(1, 1), Dims(1, 1), FALSE)
  /\ call = Call("new", Dims(1, 1), Dims(1, 1), Dims(1, 1), NoImage)
  /\ ret = NoRet
  /\ \E a \in min..max, b \in min..max :
       sample = [self |-> a, rhs |-> b, average |-> 0, applied |-> FALSE]

Average ==
  /\ ~sample.applied
  /\ sample' = [sample EXCEPT !.average = average(sample.self, sample.rhs),
                              !.applied = TRUE]
  /\ UNCHANGED <<conv, call, ret>>

NextBrightness == Average

SpecBrightness == InitBrightness /\ [][NextBrightness]_vars

(***************************************************************************)
(* Properties                                                              *)
(***************************************************************************)
Screen(c) ==
  Dims(c.output_constraints.height * c.cpixel_dimensions.height,
       c.output_constraints.width * c.cpixel_dimensions.width)

NonZero(d) == d.height > 0 /\ d.width > 0

AllNonZero(c) ==
  /\ NonZero(c.output_constraints)
  /\ NonZero(c.input_image_dimensions)
  /\ NonZero(c.cpixel_dimensions)

Converted == call.op = "convert_one"

ConvertedMatching ==
  Converted /\ call.image.dimensions = conv.input_image_dimensions

\* C1: in every state reached by new followed by with_settings and
\* convert_one calls, output_dimensions is fit_with_locked_ratio of
\* input_image_dimensions into output_constraints x cpixel_dimensions, taken
\* from the Converter's current fields.
C1_OutputDimensionsFresh ==
  conv.output_dimensions =
    fit_with_locked_ratio(conv.input_image_dimensions, Screen(conv))

\* a Converter that has converted, then was reconfigured to a non-empty size
C1_Witness ==
  /\ call.op = "with_settings"
  /\ conv.converter = UsedConverter
  /\ NonZero(conv.output_dimensions)

\* C2 as claimed: for an image of the configured size convert_one returns a
\* grid whose dimensions equal output_constraints.  Stated for the plain
\* case: no dimension zero and a non-empty grid returned.
C2_GridEqualsConstraints ==
  (ConvertedMatching /\ AllNonZero(conv) /\ NonZero(ret.image.dimensions)) =>
    /\ ret.kind = "grid"
    /\ ret.image.dimensions = conv.output_constraints

\* d is n pixels cut into whole cells of `cell` pixels, the remainder dropped
WholeCells(d, n, cell) ==
  IF cell = 0 THEN d = 0
  ELSE d * cell <= n /\ n < (d + 1) * cell

\* C2 amended: for an image of the configured size convert_one returns a grid
\* whose dimensions are output_dimensions divided by cpixel_dimensions,
\* rounded down, one Cpixel per cell, and never more than output_constraints
\* in either axis.
C2_GridWithinConstraints ==
  ConvertedMatching =>
    /\ ret.kind = "grid"
    /\ WholeCells(ret.image.dimensions.height,
                  fit_with_locked_ratio(conv.input_image_dimensions,
                                        Screen(conv)).height,
                  conv.cpixel_dimensions.height)
    /\ WholeCells(ret.image.dimensions.width,
                  fit_with_locked_ratio(conv.input_image_dimensions,
                                        Screen(conv)).width,
                  conv.cpixel_dimensions.width)
    /\ ret.image.dimensions.height <= conv.output_constraints.height
    /\ ret.image.dimensions.width <= conv.output_constraints.width
    /\ Len(ret.image.buffer) = Area(ret.image.dimensions)

\* a non-empty grid smaller than output_constraints
C2_Witness ==
  /\ ConvertedMatching
  /\ NonZero(ret.image.dimensions)
  /\ ret.image.dimensions # conv.output_constraints

\* C3 as claimed: convert_one on an image whose dimensions differ from
\* input_image_dimensions ends in an error, never in a character grid.
\* Stated for the plain case: no dimension zero, so the image is not empty.
C3_MismatchIsAnError ==
  (Converted /\ AllNonZero(conv)
     /\ call.image.dimensions # conv.input_image_dimensions) =>
    ret.kind = "error"

\* C4: with_settings keeps maximize_contrast and the cell-converter of the
\* consumed instance, stores exactly its three arguments, and derives
\* output_dimensions as new would from the same arguments.
C4_WithSettingsFrame ==
  [][call'.op = "with_settings" =>
       /\ conv'.maximize_contrast = conv.maximize_contrast
       /\ conv'.converter = conv.converter
       /\ conv'.output_constraints = call'.output_constraints
       /\ conv'.input_image_dimensions = call'.input_image_dimensions
       /\ conv'.cpixel_dimensions = call'.cpixel_dimensions
       /\ conv'.output_dimensions =
            new(call'.output_constraints, call'.input_image_dimensions,
                call'.cpixel_dimensions, FALSE).output_dimensions]_vars

\* a contrast-maximizing Converter whose cell-converter has been used,
\* reconfigured
C4_Witness ==
  /\ call.op = "with_settings"
  /\ conv.maximize_contrast
  /\ conv.converter = UsedConverter
  /\ conv.output_constraints = Dims(1, 1)

\* C5 as claimed: average(a, b) is floor((a + b) / 2), the widened
\* intermediate fits in 8 bits, the result lies between min(a, b) and
\* max(a, b), and average(a, b) = average(b, a).
C5_AverageIsMidpoint ==
  sample.applied =>
    /\ sample.average = (sample.self + sample.rhs) \div 2
    /\ sample.self + (sample.rhs \div 2) <= max
    /\ \/ sample.self <= sample.average /\ sample.average <= sample.rhs
       \/ sample.rhs <= sample.average /\ sample.average <= sample.self
    /\ sample.average = average(sample.rhs, sample.self)

Singleton(c) ==
  /\ c.output_constraints = Dims(1, 1)
  /\ c.input_image_dimensions = Dims(1, 1)
  /\ c.cpixel_dimensions = Dims(1, 1)
  /\ ~c.maximize_contrast

\* C6: with all three settings {1,1} and contrast off, output_dimensions is
\* {1,1} and convert_one on a one-pixel image returns exactly one Cpixel:
\* ' ' for the pixel 0 and 'N' for the pixel 255.
C6_SingletonPixel ==
  Singleton(conv) =>
    /\ conv.output_dimensions = Dims(1, 1)
    /\ ConvertedMatching =>
         /\ ret.kind = "grid"
         /\ Len(ret.image.buffer) = 1
         /\ call.image.buffer = <<0>> => ret.image.buffer = <<" ">>
         /\ call.image.buffer = <<255>> => ret.image.buffer = <<"N">>

C6_Witness ==
  /\ Singleton(conv)
  /\ ConvertedMatching
  /\ call.image.buffer = <<255>>
  /\ ret.image.buffer = <<"N">>

Abs(x) == IF x < 0 THEN -x ELSE x

Larger(x, y) == IF x < y THEN y ELSE x

\* C7: with all dimensions non-zero, output_dimensions fits into
\* output_constraints x cpixel_dimensions in both axes and is the largest
\* rectangle there with the image's height/width ratio up to flooring: it
\* touches the screen in one axis, every rectangle of the screen with exactly
\* the image's ratio fits into it, and its own ratio is off by less than one
\* pixel.
C7_FitsAndIsLargest ==
  AllNonZero(conv) =>
    LET R == conv.output_dimensions
        S == conv.input_image_dimensions
        B == Screen(conv)
    IN  /\ R.height <= B.height
        /\ R.width <= B.width
        /\ R.height = B.height \/ R.width = B.width
        /\ \A h \in 0..B.height, w \in 0..B.width :
             h * S.width = w * S.height => h <= R.height /\ w <= R.width
        /\ Abs(R.height * S.width - R.width * S.height)
             < Larger(S.height, S.width)

\* a fit where flooring bites: the ratio is not kept exactly
C7_Witness ==
  /\ AllNonZero(conv)
  /\ NonZero(conv.output_dimensions)
  /\ conv.output_dimensions.height * conv.input_image_dimensions.width
       # conv.output_dimensions.width * conv.input_image_dimensions.height
  /\ conv.output_dimensions.width < Screen(conv).width

AnyZero(c) == ~AllNonZero(c)

\* C8: when any height or width of the three settings is zero, new yields
\* output_dimensions {0,0} and convert_one returns the empty grid.  (TLC
\* evaluates every \div and % of the model; a zero divisor would stop it.)
C8_DegenerateIsEmpty ==
  AnyZero(conv) =>
    /\ conv.output_dimensions = Dims(0, 0)
    /\ Converted =>
         /\ ret.kind = "grid"
         /\ ret.image = BitmapImage(Dims(0, 0), <<>>)

\* a zero cell footprint, a non-empty image converted
C8_Witness ==
  /\ conv.cpixel_dimensions.height = 0
  /\ NonZero(conv.output_constraints)
  /\ ConvertedMatching
  /\ Len(call.image.buffer) > 0
  /\ ret.image.buffer = <<>>

C10_ExactMultiple ==
  AllNonZero(conv) =>
    /\ conv.output_dimensions.height % conv.cpixel_dimensions.height = 0
    /\ conv.output_dimensions.width % conv.cpixel_dimensions.width = 0

\* C10 amended: with all dimensions non-zero, output_dimensions is an exact
\* multiple of cpixel_dimensions in at least one axis, the one that limits
\* the fit, where it equals output_constraints x cpixel_dimensions; the other
\* axis may leave a boundary remainder.
C10_MultipleInLimitingAxis ==
  AllNonZero(conv) =>
    \/ /\ conv.output_dimensions.height
            = conv.output_constraints.height * conv.cpixel_dimensions.height
       /\ conv.output_dimensions.height % conv.cpixel_dimensions.height = 0
    \/ /\ conv.output_dimensions.width
            = conv.output_constraints.width * conv.cpixel_dimensions.width
       /\ conv.output_dimensions.width % conv.cpixel_dimensions.width = 0

\* a remainder in the width, the height exact
C10_Witness ==
  /\ AllNonZero(conv)
  /\ conv.output_dimensions.height % conv.cpixel_dimensions.height = 0
  /\ conv.output_dimensions.width % conv.cpixel_dimensions.width # 0
  /\ Converted

====
